---- MODULE Spec2Model ----
(***************************************************************************)
(* A model of src/src/patent_fetcher/parse.py: the conversion of a patent  *)
(* page (an HTML tree) into a nested node.                                 *)
(*                                                                         *)
(* A string is a sequence of one-character strings, so that strip, split,  *)
(* lower and capitalize are computed character by character.  A document   *)
(* is the sequence of its tags in document order (pre-order); a tag is a   *)
(* record [name, parent, attrs, text] and is referred to by its index.     *)
(* A tag holds at most one text run, which precedes its child tags.        *)
(***************************************************************************)
EXTENDS Integers, Sequences, FiniteSets, TLC

VARIABLES
    doc,        \* the HTML document handed to parse_html (the same string for every call)
    pc,         \* "idle", "walk", "sections", "returned" or "raised"
    calls,      \* number of parse_html calls started in this process
    hack,       \* the module-level set of ids of visited tags
    idOf,       \* id() of each Tag object of the call in progress
    stack,      \* the loops of parse_children_properties / parse_siblings_properties in progress
    sections,   \* the sections parse_sections still has to dispatch
    data,       \* the top-level node of the call in progress
    visits,     \* per tag, the transitions parse_properties took on it in this call
    installed,  \* per label tag, the key and node installed for it in this call
    returned    \* the outcome of every finished call, in order

vars == <<doc, pc, calls, hack, idOf, stack, sections, data, visits, installed, returned>>

---------------------------------------------------------------------------
(* Bounds of the model.                                                    *)

MaxCalls == 2
MaxReuse == 1
MaxTags == 4
MaxSectionTags == 3
MaxClaimTags == 4
MaxDescTags == 5
MaxLabelLen == 5

---------------------------------------------------------------------------
(* Strings.                                                                *)

s_itemprop == <<"i", "t", "e", "m", "p", "r", "o", "p">>
s_itemscope == <<"i", "t", "e", "m", "s", "c", "o", "p", "e">>
s_repeat == <<"r", "e", "p", "e", "a", "t">>
s_content == <<"c", "o", "n", "t", "e", "n", "t">>
s_href == <<"h", "r", "e", "f">>
s_src == <<"s", "r", "c">>
s_class == <<"c", "l", "a", "s", "s">>
s_num == <<"n", "u", "m">>
s_abstract == <<"a", "b", "s", "t", "r", "a", "c", "t">>
s_description == <<"d", "e", "s", "c", "r", "i", "p", "t", "i", "o", "n">>
s_claims == <<"c", "l", "a", "i", "m", "s">>
s_claim == <<"c", "l", "a", "i", "m">>
s_claim_text == <<"c", "l", "a", "i", "m", "-", "t", "e", "x", "t">>
s_description_line == <<"d", "e", "s", "c", "r", "i", "p", "t", "i", "o", "n", "-", "l", "i", "n", "e">>
s_text == <<"t", "e", "x", "t">>
s_parts == <<"p", "a", "r", "t", "s">>
s_heading == <<"h", "e", "a", "d", "i", "n", "g">>
s_lines == <<"l", "i", "n", "e", "s">>
s_foo == <<"f", "o", "o">>
s_title == <<"t", "i", "t", "l", "e">>
s_Title == <<"T", "i", "t", "l", "e">>
s_Sample == <<"S", "a", "m", "p", "l", "e">>
s_42 == <<"4", "2">>
s_Abstract == <<"A", "b", "s", "t", "r", "a", "c", "t">>

LowerLetters == <<"a", "b", "c", "d", "e", "f", "g", "h", "i", "j", "k", "l", "m", "n", "o", "p", "q", "r", "s", "t", "u", "v", "w", "x", "y", "z">>
UpperLetters == <<"A", "B", "C", "D", "E", "F", "G", "H", "I", "J", "K", "L", "M", "N", "O", "P", "Q", "R", "S", "T", "U", "V", "W", "X", "Y", "Z">>
Digits == <<"0", "1", "2", "3", "4", "5", "6", "7", "8", "9">>
Whitespace == {" ", "\t", "\n"}

IsLower(c) == \E i \in DOMAIN LowerLetters : LowerLetters[i] = c
IsUpper(c) == \E i \in DOMAIN UpperLetters : UpperLetters[i] = c
IsDigit(c) == \E i \in DOMAIN Digits : Digits[i] = c

\* str.isalnum() of one character
isalnum(c) == IsLower(c) \/ IsUpper(c) \/ IsDigit(c)

ToLower(c) ==
    IF IsUpper(c) THEN LowerLetters[CHOOSE i \in DOMAIN UpperLetters : UpperLetters[i] = c] ELSE c

ToUpper(c) ==
    IF IsLower(c) THEN UpperLetters[CHOOSE i \in DOMAIN LowerLetters : LowerLetters[i] = c] ELSE c

\* str.lower()
lower(s) == [i \in 1..Len(s) |-> ToLower(s[i])]

\* str.capitalize(): the first character upper-cased, the rest lower-cased
capitalize(s) == [i \in 1..Len(s) |-> IF i = 1 THEN ToUpper(s[i]) ELSE ToLower(s[i])]

RECURSIVE lstrip(_)
lstrip(s) == IF s # <<>> /\ Head(s) \in Whitespace THEN lstrip(Tail(s)) ELSE s

RECURSIVE rstrip(_)
rstrip(s) ==
    IF s # <<>> /\ s[Len(s)] \in Whitespace THEN rstrip(SubSeq(s, 1, Len(s) - 1)) ELSE s

\* str.strip()
strip(s) == rstrip(lstrip(s))

\* str.split(): the maximal runs of non-whitespace characters
RECURSIVE split(_)
split(s) ==
    LET t == lstrip(s)
        stops == {i \in 1..Len(t) : t[i] \in Whitespace}
        n == IF stops = {} THEN Len(t) + 1 ELSE CHOOSE i \in stops : \A j \in stops : i <= j
    IN  IF t = <<>> THEN <<>>
        ELSE <<SubSeq(t, 1, n - 1)>> \o split(SubSeq(t, n, Len(t)))

\* "".join(parts)
RECURSIVE join(_)
join(parts) == IF parts = <<>> THEN <<>> ELSE Head(parts) \o join(Tail(parts))

---------------------------------------------------------------------------
(* Values of a node: a string, None, a nested node or a list.              *)

None == [none |-> TRUE]
Str(s) == [str |-> s]
NodeV(n) == [node |-> n]
ListV(l) == [list |-> l]

IsList(v) == DOMAIN v = {"list"}

\* Python's truth value of what Tag.get returns
Truthy(v) == v # None /\ v # Str(<<>>) /\ v # ListV(<<>>)

\* dict(): a node is a function from its keys to its values
EmptyNode == [k \in {} |-> None]

\* node[k] = v
Put(n, k, v) == [x \in (DOMAIN n) \cup {k} |-> IF x = k THEN v ELSE n[x]]

\* the node without key k
Without(n, k) == [x \in (DOMAIN n) \ {k} |-> n[x]]

---------------------------------------------------------------------------
(* The tree (what BeautifulSoup gives).                                    *)

NoText == <<"(no text)">>
NoString == <<"(None)">>
NoTag == 0

Idx(d) == [i \in 1..Len(d) |-> i]

\* tag.children that are Tags, in order
children(d, t) == SelectSeq(Idx(d), LAMBDA i : d[i].parent = t)

\* tag.next_siblings that are Tags, in order
next_siblings(d, t) == SelectSeq(Idx(d), LAMBDA i : i > t /\ d[i].parent = d[t].parent)

\* tag.parents, nearest first
RECURSIVE parents(_, _)
parents(d, t) ==
    IF d[t].parent = NoTag THEN <<>> ELSE <<d[t].parent>> \o parents(d, d[t].parent)

IsAncestor(d, a, t) == LET above == parents(d, t) IN \E i \in DOMAIN above : above[i] = a

\* tag.descendants that are Tags, in document order
descendants(d, t) == SelectSeq(Idx(d), LAMBDA i : IsAncestor(d, t, i))

\* tag.find_all(...); matching is the set of the tags that satisfy the filter
find_all(d, t, matching) == SelectSeq(descendants(d, t), LAMBDA i : i \in matching)

\* tag.find(...): the first match, or None
find(d, t, matching) ==
    IF find_all(d, t, matching) = <<>> THEN NoTag ELSE Head(find_all(d, t, matching))

\* tag.find_parent(...): the nearest ancestor that matches, or None
find_parent(d, t, matching) ==
    LET found == SelectSeq(parents(d, t), LAMBDA i : i \in matching)
    IN  IF found = <<>> THEN NoTag ELSE Head(found)

\* tag.get(a)
get(d, t, a) == IF a \in DOMAIN d[t].attrs THEN d[t].attrs[a] ELSE None

has_attr(d, t, a) == a \in DOMAIN d[t].attrs

\* tag.string: the single text child, or the .string of the single child tag
RECURSIVE string_of(_, _)
string_of(d, t) ==
    LET kids == children(d, t)
    IN  IF d[t].text # NoText /\ kids = <<>> THEN d[t].text
        ELSE IF d[t].text = NoText /\ Len(kids) = 1 THEN string_of(d, kids[1])
        ELSE NoString

\* tag.get_text(strip=True): the stripped, non-empty text runs of the subtree, joined
get_text(d, t) ==
    LET tags == <<t>> \o descendants(d, t)
        runs == SelectSeq(tags, LAMBDA i : d[i].text # NoText /\ strip(d[i].text) # <<>>)
    IN  join([k \in 1..Len(runs) |-> strip(d[runs[k]].text)])

---------------------------------------------------------------------------
(* Tag predicates and leaf parsers.                                        *)

has_class(d, t, class_name) ==
    LET classes == IF Truthy(get(d, t, s_class)) THEN get(d, t, s_class) ELSE ListV(<<>>)
    IN  \E i \in DOMAIN classes.list : classes.list[i] = Str(class_name)

START_TAGS == {"dt", "h2"}

\* label_parts with `continue` in the place of `break`
RECURSIVE label_parts_continue(_, _)
label_parts_continue(words, i) ==
    IF i >= Len(words) THEN <<>>
    ELSE LET part == words[i + 1]
         IN  IF ~isalnum(part[1]) THEN label_parts_continue(words, i + 1)
             ELSE <<IF i = 0 THEN lower(part) ELSE capitalize(part)>>
                  \o label_parts_continue(words, i + 1)

\* the for loop of parse_label over raw.split(), from index i (zero-based)
RECURSIVE label_parts(_, _)
label_parts(words, i) ==
    IF i >= Len(words) THEN <<>>
    ELSE LET part == words[i + 1]
         IN  IF ~isalnum(part[1]) THEN <<>>
             ELSE <<IF i = 0 THEN lower(part) ELSE capitalize(part)>> \o label_parts(words, i + 1)

parse_label(d, t) ==
    LET raw == string_of(d, t)
    IN  IF raw = NoString THEN <<>> ELSE join(label_parts(split(strip(raw)), 0))

\* property_value; child_node is what parse_children_properties made of the tag's children
property_value(d, t, child_node) ==
    IF has_attr(d, t, s_itemscope) THEN NodeV(child_node)
    ELSE IF Truthy(get(d, t, s_content)) THEN get(d, t, s_content)
    ELSE IF Truthy(get(d, t, s_href)) THEN get(d, t, s_href)
    ELSE IF Truthy(get(d, t, s_src)) THEN get(d, t, s_src)
    ELSE IF string_of(d, t) = NoString THEN None
    ELSE Str(strip(string_of(d, t)))

\* store_property whose repeat branch assigns a one-element list every time
store_property_reset(d, t, node, value) ==
    LET property_name == get(d, t, s_itemprop).str
    IN  IF has_attr(d, t, s_repeat)
        THEN [ok |-> TRUE, node |-> Put(node, property_name, ListV(<<value>>))]
        ELSE [ok |-> TRUE, node |-> Put(node, property_name, value)]

\* the end of parse_properties: the value goes into the node; ok is FALSE when
\* .append is called on something that is not a list (AttributeError)
store_property(d, t, node, value) ==
    LET property_name == get(d, t, s_itemprop).str
    IN  IF has_attr(d, t, s_repeat)
        THEN IF property_name \notin DOMAIN node
             THEN [ok |-> TRUE, node |-> Put(node, property_name, ListV(<<value>>))]
             ELSE IF IsList(node[property_name])
             THEN [ok |-> TRUE,
                   node |-> Put(node, property_name, ListV(Append(node[property_name].list, value)))]
             ELSE [ok |-> FALSE, node |-> node]
        ELSE [ok |-> TRUE, node |-> Put(node, property_name, value)]

attrs_except_class(d, t) == Without(d[t].attrs, s_class)

---------------------------------------------------------------------------
(* The section parsers.  Each gives [ok, node]; ok is FALSE when one of    *)
(* its assertions fails.                                                   *)

Failed == [ok |-> FALSE, node |-> EmptyNode]

is_section(d, t) == d[t].name = "section" /\ has_attr(d, t, s_itemscope)

parse_abstract(d, section) ==
    LET abstract == find(d, section, {i \in DOMAIN d : d[i].name = "abstract"})
    IN  IF abstract = NoTag THEN Failed
        ELSE [ok |-> TRUE,
              node |-> Put(d[abstract].attrs, s_content, Str(get_text(d, abstract)))]

new_part(heading) == (s_heading :> Str(heading)) @@ (s_lines :> ListV(<<>>))

\* is_target of parse_description
is_target(d, t) == d[t].name = "heading" \/ has_class(d, t, s_description_line)

\* description_parts without the append after the loop
RECURSIVE description_parts_unflushed(_, _, _, _)
description_parts_unflushed(d, tags, parts, current_part) ==
    IF tags = <<>> THEN parts
    ELSE LET tag == Head(tags)
             text == get_text(d, tag)
             line == NodeV((s_num :> get(d, tag, s_num)) @@ (s_text :> Str(text)))
         IN  IF d[tag].name = "heading"
             THEN description_parts_unflushed(d, Tail(tags), Append(parts, NodeV(current_part)),
                                              new_part(text))
             ELSE description_parts_unflushed(d, Tail(tags), parts,
                                              Put(current_part, s_lines,
                                                  ListV(Append(current_part[s_lines].list, line))))

\* the for loop of parse_description over the target tags, and the final append
RECURSIVE description_parts(_, _, _, _)
description_parts(d, tags, parts, current_part) ==
    IF tags = <<>> THEN Append(parts, NodeV(current_part))
    ELSE LET tag == Head(tags)
             text == get_text(d, tag)
             line == NodeV((s_num :> get(d, tag, s_num)) @@ (s_text :> Str(text)))
         IN  IF d[tag].name = "heading"
             THEN description_parts(d, Tail(tags), Append(parts, NodeV(current_part)),
                                    new_part(text))
             ELSE description_parts(d, Tail(tags), parts,
                                    Put(current_part, s_lines,
                                        ListV(Append(current_part[s_lines].list, line))))

parse_description(d, section) ==
    LET description == find(d, section, {i \in DOMAIN d : has_class(d, i, s_description)})
    IN  IF description = NoTag THEN Failed
        ELSE [ok |-> TRUE,
              node |-> Put(attrs_except_class(d, description), s_parts,
                           ListV(description_parts(d,
                                     find_all(d, description,
                                              {i \in DOMAIN d : is_target(d, i)}),
                                     <<>>, new_part(<<>>))))]

\* find_claims_loop that yields the claim of every claim-text tag, seen or not
RECURSIVE find_claims_loop_all(_, _, _, _, _)
find_claims_loop_all(d, ids, text_tags, seen_tags, out) ==
    IF text_tags = <<>> THEN [ok |-> TRUE, tags |-> out]
    ELSE LET claim == find_parent(d, Head(text_tags), {i \in DOMAIN d : has_class(d, i, s_claim)})
         IN  IF claim = NoTag THEN [ok |-> FALSE, tags |-> out]
             ELSE find_claims_loop_all(d, ids, Tail(text_tags), seen_tags \cup {ids[claim]},
                                       Append(out, claim))

\* the for loop of find_claims over the claim-text tags; ids is id() of the tags
RECURSIVE find_claims_loop(_, _, _, _, _)
find_claims_loop(d, ids, text_tags, seen_tags, out) ==
    IF text_tags = <<>> THEN [ok |-> TRUE, tags |-> out]
    ELSE LET claim == find_parent(d, Head(text_tags), {i \in DOMAIN d : has_class(d, i, s_claim)})
         IN  IF claim = NoTag THEN [ok |-> FALSE, tags |-> out]
             ELSE find_claims_loop(d, ids, Tail(text_tags), seen_tags \cup {ids[claim]},
                                   IF ids[claim] \notin seen_tags THEN Append(out, claim)
                                   ELSE out)

find_claims(d, ids, claims_tag) ==
    find_claims_loop(d, ids,
                     find_all(d, claims_tag, {i \in DOMAIN d : has_class(d, i, s_claim_text)}),
                     {}, <<>>)

parse_claim(d, claim) == Put(attrs_except_class(d, claim), s_text, Str(get_text(d, claim)))

parse_claims(d, ids, section) ==
    LET claims_tag == find(d, section, {i \in DOMAIN d : has_class(d, i, s_claims)})
        found == find_claims(d, ids, claims_tag)
    IN  IF claims_tag = NoTag THEN Failed
        ELSE IF ~found.ok THEN Failed
        ELSE [ok |-> TRUE,
              node |-> Put(attrs_except_class(d, claims_tag), s_claims,
                           ListV([k \in 1..Len(found.tags) |->
                                     NodeV(parse_claim(d, found.tags[k]))]))]

\* one round of the for loop of parse_sections: the key and the value it stores;
\* ok is FALSE when section["itemprop"] is missing (KeyError) or a parser's assertion fails
section_field(d, ids, section) ==
    LET property_name == get(d, section, s_itemprop)
        parsed == IF property_name = Str(s_abstract) THEN parse_abstract(d, section)
                  ELSE IF property_name = Str(s_description) THEN parse_description(d, section)
                  ELSE IF property_name = Str(s_claims) THEN parse_claims(d, ids, section)
                  ELSE [ok |-> TRUE, node |-> EmptyNode]
        handled == property_name \in {Str(s_abstract), Str(s_description), Str(s_claims)}
    IN  IF ~has_attr(d, section, s_itemprop) THEN [ok |-> FALSE, key |-> <<>>, value |-> None]
        ELSE [ok |-> parsed.ok, key |-> property_name.str,
              value |-> IF handled THEN NodeV(parsed.node) ELSE None]

---------------------------------------------------------------------------
(* parse_html as a state machine.  A frame of the stack is one loop in     *)
(* progress: rest, the tags it still has to hand to parse_properties;      *)
(* node, its current_node; ret, what happens to the node when the loop     *)
(* ends ("top": it is data; "flat": it is the caller's own current_node;   *)
(* "label": it is installed under the label of tag owner; "scope": it is   *)
(* the value of the property tag owner); occ, the property values stored   *)
(* into the node so far, per property name; labels, the keys under which   *)
(* a label group was installed into the node so far.                       *)

Top == stack[Len(stack)]
Caller == stack[Len(stack) - 1]

Frame(rest, node, ret, owner, occ, labels) ==
    [rest |-> rest, node |-> node, ret |-> ret, owner |-> owner, occ |-> occ, labels |-> labels]

NoOcc == [k \in {} |-> <<>>]

Raised == [ok |-> FALSE, node |-> EmptyNode]

\* a guard that never finds the tag
in_hack_never(ids, h, t) == FALSE

\* the guard of parse_properties
in_hack(ids, h, t) == ids[t] \in h

\* parse_siblings_properties returns at the next label; every loop ends with its tags
loop_done(d, f) ==
    IF f.rest = <<>> THEN TRUE
    ELSE f.ret = "label" /\ d[Head(f.rest)].name \in START_TAGS

\* the loop on top of the stack hands tag t to parse_properties, which goes past its guard
Enters(t) ==
    /\ pc = "walk"
    /\ stack # <<>>
    /\ ~loop_done(doc, Top)
    /\ t = Head(Top.rest)
    /\ ~in_hack(idOf, hack, t)

Visit(t, transition) ==
    /\ hack' = hack \cup {idOf[t]}
    /\ visits' = [visits EXCEPT ![t] = Append(@, transition)]

Advance(f) == [f EXCEPT !.rest = Tail(@)]

Remember(occ, d, t, value) ==
    LET name == get(d, t, s_itemprop).str
        entry == [tag |-> t, repeat |-> has_attr(d, t, s_repeat), value |-> value]
    IN  [k \in (DOMAIN occ) \cup {name} |->
            IF k = name THEN (IF name \in DOMAIN occ THEN Append(occ[name], entry) ELSE <<entry>>)
            ELSE occ[k]]

Raise ==
    /\ pc' = "raised"
    /\ stack' = <<>>
    /\ returned' = Append(returned, Raised)

\* ids of the Tag objects of a new call: the tags of `reused` get addresses of dead
\* tags that hack still holds, the others get addresses never used before
new_ids(d, h, n, reused) ==
    [t \in 1..Len(d) |->
        IF t \in reused
        THEN CHOOSE x \in h : Cardinality({y \in h : y <= x}) = Cardinality({u \in reused : u <= t})
        ELSE n * Len(d) + t]

ReuseChoices ==
    {R \in SUBSET (1..Len(doc)) : Cardinality(R) <= MaxReuse /\ Cardinality(R) <= Cardinality(hack)}

soup_html(d) ==
    IF SelectSeq(Idx(d), LAMBDA i : d[i].name = "html") = <<>> THEN NoTag
    ELSE Head(SelectSeq(Idx(d), LAMBDA i : d[i].name = "html"))

article_of(d) ==
    IF soup_html(d) = NoTag THEN NoTag
    ELSE find(d, soup_html(d), {i \in DOMAIN d : d[i].name = "article"})

ParseHtml ==
    /\ pc \in {"idle", "returned", "raised"}
    /\ calls < MaxCalls
    /\ calls' = calls + 1
    /\ \E reused \in ReuseChoices : idOf' = new_ids(doc, hack, calls, reused)
    /\ visits' = [t \in 1..Len(doc) |-> <<>>]
    /\ installed' = [t \in 1..Len(doc) |-> <<>>]
    /\ sections' = <<>>
    /\ data' = EmptyNode
    /\ IF article_of(doc) = NoTag
       THEN Raise
       ELSE /\ pc' = "walk"
            /\ stack' = <<Frame(<<article_of(doc)>>, EmptyNode, "top", NoTag, NoOcc, {})>>
            /\ returned' = returned
    /\ UNCHANGED <<doc, hack>>

Visited ==
    /\ pc = "walk"
    /\ stack # <<>>
    /\ ~loop_done(doc, Top)
    /\ in_hack(idOf, hack, Head(Top.rest))
    /\ stack' = [stack EXCEPT ![Len(stack)] = Advance(Top)]
    /\ UNCHANGED <<doc, pc, calls, hack, idOf, sections, data, visits, installed, returned>>

LabelStart ==
    \E t \in 1..Len(doc) :
        /\ Enters(t)
        /\ doc[t].name \in START_TAGS
        /\ Visit(t, "label")
        /\ stack' = Append([stack EXCEPT ![Len(stack)] = Advance(Top)],
                           Frame(next_siblings(doc, t), EmptyNode, "label", t, NoOcc, {}))
        /\ UNCHANGED <<doc, pc, calls, idOf, sections, data, installed, returned>>

NonProperty ==
    \E t \in 1..Len(doc) :
        /\ Enters(t)
        /\ doc[t].name \notin START_TAGS
        /\ ~Truthy(get(doc, t, s_itemprop))
        /\ Visit(t, "children")
        /\ stack' = Append([stack EXCEPT ![Len(stack)] = Advance(Top)],
                           Frame(children(doc, t), Top.node, "flat", t, Top.occ, Top.labels))
        /\ UNCHANGED <<doc, pc, calls, idOf, sections, data, installed, returned>>

SectionDeferral ==
    \E t \in 1..Len(doc) :
        /\ Enters(t)
        /\ doc[t].name \notin START_TAGS
        /\ Truthy(get(doc, t, s_itemprop))
        /\ doc[t].name = "section"
        /\ Visit(t, "section")
        /\ stack' = [stack EXCEPT ![Len(stack)] = Advance(Top)]
        /\ UNCHANGED <<doc, pc, calls, idOf, sections, data, installed, returned>>

Property ==
    \E t \in 1..Len(doc) :
        /\ Enters(t)
        /\ doc[t].name \notin START_TAGS
        /\ Truthy(get(doc, t, s_itemprop))
        /\ doc[t].name # "section"
        /\ ~has_attr(doc, t, s_itemscope)
        /\ Visit(t, "property")
        /\ LET value == property_value(doc, t, EmptyNode)
               stored == store_property(doc, t, Top.node, value)
           IN  IF stored.ok
               THEN /\ stack' = [stack EXCEPT ![Len(stack)] =
                                    [Advance(Top) EXCEPT !.node = stored.node,
                                                         !.occ = Remember(@, doc, t, value)]]
                    /\ UNCHANGED <<pc, returned>>
               ELSE Raise
        /\ UNCHANGED <<doc, calls, idOf, sections, data, installed>>

NestedProperty ==
    \E t \in 1..Len(doc) :
        /\ Enters(t)
        /\ doc[t].name \notin START_TAGS
        /\ Truthy(get(doc, t, s_itemprop))
        /\ doc[t].name # "section"
        /\ has_attr(doc, t, s_itemscope)
        /\ Visit(t, "property")
        /\ stack' = Append([stack EXCEPT ![Len(stack)] = Advance(Top)],
                           Frame(children(doc, t), EmptyNode, "scope", t, NoOcc, {}))
        /\ UNCHANGED <<doc, pc, calls, idOf, sections, data, installed, returned>>

\* a loop ends and its caller goes on
LoopEnd ==
    /\ pc = "walk"
    /\ stack # <<>>
    /\ loop_done(doc, Top)
    /\ CASE Top.ret = "top" ->
              /\ pc' = "sections"
              /\ data' = Top.node
              /\ sections' = find_all(doc, article_of(doc), {i \in DOMAIN doc : is_section(doc, i)})
              /\ stack' = <<>>
              /\ UNCHANGED <<installed, returned>>
         [] Top.ret = "flat" ->
              /\ stack' = [SubSeq(stack, 1, Len(stack) - 1) EXCEPT ![Len(stack) - 1] =
                              [Caller EXCEPT !.node = Top.node, !.occ = Top.occ,
                                             !.labels = Top.labels]]
              /\ UNCHANGED <<pc, data, sections, installed, returned>>
         [] Top.ret = "label" ->
              /\ stack' = [SubSeq(stack, 1, Len(stack) - 1) EXCEPT ![Len(stack) - 1] =
                              [Caller EXCEPT !.node =
                                  Put(@, parse_label(doc, Top.owner), NodeV(Top.node)),
                                             !.labels = @ \cup {parse_label(doc, Top.owner)}]]
              /\ installed' = [installed EXCEPT ![Top.owner] =
                                  Append(@, [key |-> parse_label(doc, Top.owner),
                                             node |-> Top.node])]
              /\ UNCHANGED <<pc, data, sections, returned>>
         [] Top.ret = "scope" ->
              LET value == property_value(doc, Top.owner, Top.node)
                  stored == store_property(doc, Top.owner, Caller.node, value)
              IN  /\ IF stored.ok
                     THEN /\ stack' = [SubSeq(stack, 1, Len(stack) - 1) EXCEPT ![Len(stack) - 1] =
                                          [Caller EXCEPT !.node = stored.node,
                                                         !.occ = Remember(@, doc, Top.owner, value)]]
                          /\ UNCHANGED <<pc, returned>>
                     ELSE Raise
                  /\ UNCHANGED <<data, sections, installed>>
    /\ UNCHANGED <<doc, calls, hack, idOf, visits>>

\* ParseSection that stores nothing for a property name it does not handle
ParseSectionSkipUnhandled ==
    /\ pc = "sections"
    /\ sections # <<>>
    /\ LET field == section_field(doc, idOf, Head(sections))
       IN  IF field.ok
           THEN /\ data' = IF field.value = None THEN data ELSE Put(data, field.key, field.value)
                /\ sections' = Tail(sections)
                /\ UNCHANGED <<pc, stack, returned>>
           ELSE /\ Raise
                /\ UNCHANGED <<data, sections>>
    /\ UNCHANGED <<doc, calls, hack, idOf, visits, installed>>

ParseSection ==
    /\ pc = "sections"
    /\ sections # <<>>
    /\ LET field == section_field(doc, idOf, Head(sections))
       IN  IF field.ok
           THEN /\ data' = Put(data, field.key, field.value)
                /\ sections' = Tail(sections)
                /\ UNCHANGED <<pc, stack, returned>>
           ELSE /\ Raise
                /\ UNCHANGED <<data, sections>>
    /\ UNCHANGED <<doc, calls, hack, idOf, visits, installed>>

Return ==
    /\ pc = "sections"
    /\ sections = <<>>
    /\ pc' = "returned"
    /\ returned' = Append(returned, [ok |-> TRUE, node |-> data])
    /\ UNCHANGED <<doc, calls, hack, idOf, stack, sections, data, visits, installed>>

Next ==
    \/ ParseHtml
    \/ Visited
    \/ LabelStart
    \/ NonProperty
    \/ SectionDeferral
    \/ Property
    \/ NestedProperty
    \/ LoopEnd
    \/ ParseSection
    \/ Return

\* parse_claims and parse_description applied on their own to the first scoped section
CallParseClaims ==
    /\ pc = "idle"
    /\ LET parsed == parse_claims(doc, idOf, Head(sections))
       IN  /\ pc' = IF parsed.ok THEN "returned" ELSE "raised"
           /\ data' = parsed.node
           /\ returned' = Append(returned, parsed)
    /\ UNCHANGED <<doc, calls, hack, idOf, stack, sections, visits, installed>>

CallParseDescription ==
    /\ pc = "idle"
    /\ LET parsed == parse_description(doc, Head(sections))
       IN  /\ pc' = IF parsed.ok THEN "returned" ELSE "raised"
           /\ data' = parsed.node
           /\ returned' = Append(returned, parsed)
    /\ UNCHANGED <<doc, calls, hack, idOf, stack, sections, visits, installed>>

---------------------------------------------------------------------------
(* The documents of the model.  A family of documents is a fixed prefix of tags *)
(* followed by every tree of at most max further tags, each of one of the  *)
(* family's kinds, below the last tag of the prefix.  The parameter d of a *)
(* family is the document: the definition says that d is of the family.    *)

Tag(name, parent, attrs, text) ==
    [name |-> name, parent |-> parent, attrs |-> attrs, text |-> text]

NoAttrs == [k \in {} |-> None]

Attr(k, v) == [x \in {k} |-> Str(v)]

Classes(cs) == [x \in {s_class} |-> ListV([i \in 1..Len(cs) |-> Str(cs[i])])]

Merge(f, g) == [k \in (DOMAIN f) \cup (DOMAIN g) |-> IF k \in DOMAIN f THEN f[k] ELSE g[k]]

\* a text that tells the tags of one document apart
TextOf(i) ==
    IF i < 10 THEN <<Digits[i + 1]>> ELSE <<Digits[((i \div 10) % 10) + 1], Digits[(i % 10) + 1]>>

HtmlTag == Tag("html", NoTag, NoAttrs, NoText)
ArticleTag == Tag("article", 1, NoAttrs, NoText)

\* tag i and its ancestors up to root; p[k] is the parent of tag root + k
RECURSIVE UpPath(_, _, _)
UpPath(root, p, i) == IF i <= root THEN {root} ELSE {i} \cup UpPath(root, p, p[i - root])

\* the parent sequences of the trees of m tags below root, in document order
RECURSIVE Shapes(_, _)
Shapes(root, m) ==
    IF m = 0 THEN {<<>>}
    ELSE UNION {{Append(p, q) : q \in UpPath(root, p, root + Len(p))} : p \in Shapes(root, m - 1)}

\* labels, wrappers, properties (scalar, repeatable, nested) and a section, all named "a"
WalkKinds == {"h2", "dt", "div", "prop", "rep", "scope", "section"}

WalkTag(kind, parent, i) ==
    CASE kind = "h2" -> Tag("h2", parent, NoAttrs, <<"a">>)
      [] kind = "dt" -> Tag("dt", parent, NoAttrs, <<"B">>)
      [] kind = "div" -> Tag("div", parent, NoAttrs, NoText)
      [] kind = "prop" -> Tag("span", parent, Attr(s_itemprop, <<"a">>), TextOf(i))
      [] kind = "rep" ->
            Tag("span", parent, Merge(Attr(s_itemprop, <<"a">>), Attr(s_repeat, <<>>)), TextOf(i))
      [] kind = "scope" ->
            Tag("div", parent, Merge(Attr(s_itemprop, <<"a">>), Attr(s_itemscope, <<>>)), NoText)
      [] kind = "section" -> Tag("section", parent, Attr(s_itemprop, <<"a">>), NoText)

TreeDocs(d, max) ==
    \E m \in 0..max : \E p \in Shapes(2, m) : \E ks \in [1..m -> WalkKinds] :
        d = <<HtmlTag, ArticleTag>> \o [k \in 1..m |-> WalkTag(ks[k], p[k], 2 + k)]

\* scoped sections of every dispatch, their content tags, and a label and properties
\* that the generic walk stores under the sections' keys
SectionKinds ==
    {"abstract_s", "description_s", "claims_s", "foo_s", "abstract", "description", "claims",
     "h2", "prop", "propfoo"}

Scoped(name) == Merge(Attr(s_itemprop, name), Attr(s_itemscope, <<>>))

SectionTag(kind, parent, i) ==
    CASE kind = "abstract_s" -> Tag("section", parent, Scoped(s_abstract), NoText)
      [] kind = "description_s" -> Tag("section", parent, Scoped(s_description), NoText)
      [] kind = "claims_s" -> Tag("section", parent, Scoped(s_claims), NoText)
      [] kind = "foo_s" -> Tag("section", parent, Scoped(s_foo), NoText)
      [] kind = "abstract" -> Tag("abstract", parent, Attr(s_num, TextOf(i)), TextOf(i))
      [] kind = "description" ->
            Tag("div", parent, Merge(Classes(<<s_description>>), Attr(s_num, TextOf(i))), NoText)
      [] kind = "claims" ->
            Tag("div", parent, Merge(Classes(<<s_claims>>), Attr(s_num, TextOf(i))), NoText)
      [] kind = "h2" -> Tag("h2", parent, NoAttrs, s_Abstract)
      [] kind = "prop" -> Tag("span", parent, Attr(s_itemprop, s_abstract), TextOf(i))
      [] kind = "propfoo" -> Tag("span", parent, Attr(s_itemprop, s_foo), TextOf(i))

SectionDocs(d, max) ==
    \E m \in 0..max : \E p \in Shapes(2, m) : \E ks \in [1..m -> SectionKinds] :
        d = <<HtmlTag, ArticleTag>> \o [k \in 1..m |-> SectionTag(ks[k], p[k], 2 + k)]

\* one property tag with every combination of itemscope, content, href, src and text,
\* alone or with a child tag
ValueAttrs ==
    {Merge(Attr(s_itemprop, <<"a">>), Merge(scope, Merge(content, Merge(href, src)))) :
        scope \in {NoAttrs, Attr(s_itemscope, <<>>)},
        content \in {NoAttrs, Attr(s_content, <<>>), Attr(s_content, <<"c">>)},
        href \in {NoAttrs, Attr(s_href, <<>>), Attr(s_href, <<"h">>)},
        src \in {NoAttrs, Attr(s_src, <<>>), Attr(s_src, <<"s">>)}}

ValueChildren ==
    {<<>>,
     <<Tag("b", 3, NoAttrs, <<"k", " ">>)>>,
     <<Tag("span", 3, Attr(s_itemprop, <<"b">>), <<"k">>)>>}

ValueDocs ==
    {<<HtmlTag, ArticleTag, Tag("span", 2, attrs, text)>> \o kids :
        attrs \in ValueAttrs, text \in {NoText, <<" ", "t", " ">>}, kids \in ValueChildren}

\* one label whose text is any string of at most max characters of the alphabet, or
\* which has no text
LabelAlphabet == {"a", "B", ":", " "}

LabelTexts(max) == UNION {[1..n -> LabelAlphabet] : n \in 1..max}

LabelDocs(max) ==
    {<<HtmlTag, ArticleTag, Tag("h2", 2, NoAttrs, text)>> : text \in LabelTexts(max) \cup {NoText}}

\* a claims section: claim tags, claim-text tags, tags that are both, wrappers
ClaimKinds == {"claim", "claim-text", "both", "div"}

ClaimTag(kind, parent, i) ==
    CASE kind = "claim" ->
            Tag("div", parent, Merge(Classes(<<s_claim>>), Attr(s_num, TextOf(i))), NoText)
      [] kind = "claim-text" -> Tag("div", parent, Classes(<<s_claim_text>>), TextOf(i))
      [] kind = "both" ->
            Tag("div", parent, Merge(Classes(<<s_claim, s_claim_text>>), Attr(s_num, TextOf(i))),
                TextOf(i))
      [] kind = "div" -> Tag("div", parent, NoAttrs, NoText)

ClaimsPrefix ==
    <<HtmlTag, ArticleTag, Tag("section", 2, Scoped(s_claims), NoText),
      Tag("div", 3, Merge(Classes(<<s_claims>>), Attr(s_num, <<"9">>)), NoText)>>

ClaimDocs(d, max) ==
    \E m \in 0..max : \E p \in Shapes(4, m) : \E ks \in [1..m -> ClaimKinds] :
        d = ClaimsPrefix \o [k \in 1..m |-> ClaimTag(ks[k], p[k], 4 + k)]

\* a description section: headings, lines (with a num at the odd positions of the
\* document, without at the even ones), wrappers
DescKinds == {"heading", "line", "div"}

DescTag(kind, parent, i) ==
    CASE kind = "heading" -> Tag("heading", parent, NoAttrs, TextOf(i))
      [] kind = "line" ->
            Tag("div", parent,
                Merge(Classes(<<s_description_line>>),
                      IF i % 2 = 1 THEN Attr(s_num, TextOf(i)) ELSE NoAttrs),
                TextOf(i))
      [] kind = "div" -> Tag("div", parent, NoAttrs, NoText)

DescPrefix ==
    <<HtmlTag, ArticleTag, Tag("section", 2, Scoped(s_description), NoText),
      Tag("div", 3, Merge(Classes(<<s_description>>), Attr(s_num, <<"9">>)), NoText)>>

DescDocs(d, max) ==
    \E m \in 0..max : \E p \in Shapes(4, m) : \E ks \in [1..m -> DescKinds] :
        d = DescPrefix \o [k \in 1..m |-> DescTag(ks[k], p[k], 4 + k)]

\* the document of the end-to-end example: the section carries itemprop only
ExampleDoc ==
    <<HtmlTag, ArticleTag,
      Tag("h2", 2, NoAttrs, s_Title),
      Tag("span", 2, Attr(s_itemprop, s_num), s_42),
      Tag("section", 2, Attr(s_itemprop, s_abstract), NoText),
      Tag("abstract", 5, NoAttrs, s_Sample)>>

\* a nested property and a scoped abstract section
ScopedDoc ==
    <<HtmlTag, ArticleTag,
      Tag("div", 2, Scoped(<<"a">>), NoText),
      Tag("span", 3, Attr(s_itemprop, s_num), s_42),
      Tag("section", 2, Scoped(s_abstract), NoText),
      Tag("abstract", 5, NoAttrs, s_Sample)>>

\* two scoped abstract sections with different contents
TwoAbstractsDoc ==
    <<HtmlTag, ArticleTag,
      Tag("section", 2, Scoped(s_abstract), NoText),
      Tag("abstract", 3, NoAttrs, s_42),
      Tag("section", 2, Scoped(s_abstract), NoText),
      Tag("abstract", 5, NoAttrs, s_Sample)>>

BaseDocs == {ExampleDoc, ScopedDoc, TwoAbstractsDoc}

---------------------------------------------------------------------------
(* Specifications.                                                         *)

\* a fresh process: the module is loaded, parse_html has not been called
Loaded ==
    /\ pc = "idle"
    /\ calls = 0
    /\ hack = {}
    /\ idOf = [t \in 1..Len(doc) |-> 0]
    /\ stack = <<>>
    /\ sections = <<>>
    /\ data = EmptyNode
    /\ visits = [t \in 1..Len(doc) |-> <<>>]
    /\ installed = [t \in 1..Len(doc) |-> <<>>]
    /\ returned = <<>>

\* a section parser is about to be called on the scoped section of a parsed document
AtSection ==
    /\ pc = "idle"
    /\ calls = 0
    /\ hack = {}
    /\ idOf = Idx(doc)
    /\ stack = <<>>
    /\ sections = find_all(doc, article_of(doc), {i \in DOMAIN doc : is_section(doc, i)})
    /\ data = EmptyNode
    /\ visits = [t \in 1..Len(doc) |-> <<>>]
    /\ installed = [t \in 1..Len(doc) |-> <<>>]
    /\ returned = <<>>

Init == (TreeDocs(doc, MaxTags) \/ doc \in BaseDocs) /\ Loaded
Spec == Init /\ [][Next]_vars

InitSections == (SectionDocs(doc, MaxSectionTags) \/ doc \in BaseDocs) /\ Loaded
SpecSections == InitSections /\ [][Next]_vars

InitValue == doc \in ValueDocs \cup BaseDocs /\ Loaded
SpecValue == InitValue /\ [][Next]_vars

InitLabel == doc \in LabelDocs(MaxLabelLen) \cup BaseDocs /\ Loaded
SpecLabel == InitLabel /\ [][Next]_vars

InitClaims == ClaimDocs(doc, MaxClaimTags) /\ AtSection
SpecClaims == InitClaims /\ [][CallParseClaims]_vars

InitDescription == DescDocs(doc, MaxDescTags) /\ AtSection
SpecDescription == InitDescription /\ [][CallParseDescription]_vars

---------------------------------------------------------------------------
(* The claims.                                                             *)

Frames == {stack[i] : i \in DOMAIN stack}

\* the property values stored so far into the nodes under construction
Stored == UNION {UNION {{f.occ[name][k] : k \in DOMAIN f.occ[name]} : name \in DOMAIN f.occ} :
                 f \in Frames}

ExampleNode ==
    Put(Put(EmptyNode, s_title, NodeV(Put(EmptyNode, s_num, Str(s_42)))),
        s_abstract, NodeV(Put(EmptyNode, s_content, Str(s_Sample))))

\* C1: parse_html of the example document (an h2 "Title", a span itemprop="num" with
\* text "42", a section itemprop="abstract" holding an abstract tag with text "Sample")
\* returns {title: {num: "42"}, abstract: {content: "Sample"}}.
C1_EndToEndExample ==
    (doc = ExampleDoc /\ pc = "returned") => data = ExampleNode

\* C9: the visited set is scoped to one parse_html call: it is empty when a call
\* starts, and parsing the same document again in one process gives an equal node.
C9_VisitedSetPerCall ==
    /\ (pc = "walk" /\ \A t \in DOMAIN visits : visits[t] = <<>>) => hack = {}
    /\ \A i, j \in DOMAIN returned : returned[i] = returned[j]

\* the first rule of property_value whose attribute the tag carries, whatever its value
FirstPresent(d, t) ==
    IF has_attr(d, t, s_itemscope) THEN "itemscope"
    ELSE IF has_attr(d, t, s_content) THEN "content"
    ELSE IF has_attr(d, t, s_href) THEN "href"
    ELSE IF has_attr(d, t, s_src) THEN "src"
    ELSE "text"

\* C10: property_value follows a first-match order over attributes that are present,
\* the empty string included: itemscope gives a node, else content, else href, else
\* src give the attribute's value, else the stripped text, or None without a single
\* string.
C10_FirstMatchOrder ==
    \A e \in Stored :
        CASE FirstPresent(doc, e.tag) = "itemscope" -> DOMAIN e.value = {"node"}
          [] FirstPresent(doc, e.tag) = "content" -> e.value = get(doc, e.tag, s_content)
          [] FirstPresent(doc, e.tag) = "href" -> e.value = get(doc, e.tag, s_href)
          [] FirstPresent(doc, e.tag) = "src" -> e.value = get(doc, e.tag, s_src)
          [] FirstPresent(doc, e.tag) = "text" ->
                e.value = IF string_of(doc, e.tag) = NoString THEN None
                          ELSE Str(strip(string_of(doc, e.tag)))

IsPunctuation(c) == ~isalnum(c) /\ c \notin Whitespace

\* the labels installed in this call: the text of the label tag and the key
Labels ==
    UNION {{[raw |-> string_of(doc, t), key |-> installed[t][k].key] : k \in DOMAIN installed[t]} :
           t \in DOMAIN installed}

\* the words of a label text
Words(raw) == split(strip(raw))

EndsInPunctuation(w) == IsPunctuation(w[Len(w)])
StartsNonAlnum(w) == ~isalnum(w[1])

\* the first word of ws that ends in punctuation, or Len(ws) + 1
FirstEnding(ws) ==
    IF \E i \in DOMAIN ws : EndsInPunctuation(ws[i])
    THEN CHOOSE i \in DOMAIN ws :
            EndsInPunctuation(ws[i]) /\ \A j \in 1..(i - 1) : ~EndsInPunctuation(ws[j])
    ELSE Len(ws) + 1

\* the first word of ws that begins with a non-alphanumeric character, or Len(ws) + 1
FirstStarting(ws) ==
    IF \E i \in DOMAIN ws : StartsNonAlnum(ws[i])
    THEN CHOOSE i \in DOMAIN ws :
            StartsNonAlnum(ws[i]) /\ \A j \in 1..(i - 1) : ~StartsNonAlnum(ws[j])
    ELSE Len(ws) + 1

\* the first word lower-cased, the next ones capitalized, concatenated
CamelCase(ws) == join([i \in 1..Len(ws) |-> IF i = 1 THEN lower(ws[i]) ELSE capitalize(ws[i])])

\* C4 as stated: when a word of the label text ends in punctuation, the label holds no
\* punctuation character and nothing of the words after that word.
C4_PunctuationTruncates ==
    \A l \in Labels :
        (l.raw # NoString /\ \E i \in DOMAIN Words(l.raw) : EndsInPunctuation(Words(l.raw)[i])) =>
            /\ \A i \in DOMAIN l.key : ~IsPunctuation(l.key[i])
            /\ Len(l.key) <= Len(join(SubSeq(Words(l.raw), 1,
                                             FirstEnding(Words(l.raw)))))

\* C4 amended: the label is the camel case of the words before the first word that
\* begins with a non-alphanumeric character; that word and the words after it are left
\* out, and punctuation elsewhere in a word is kept.
C4_LeadingPunctuationTruncates ==
    \A l \in Labels :
        l.raw # NoString =>
            l.key = CamelCase(SubSeq(Words(l.raw), 1, FirstStarting(Words(l.raw)) - 1))

\* a label with a word that ends in punctuation, kept, before a word that begins with
\* punctuation, left out
C4_Witness ==
    /\ pc = "returned"
    /\ \E l \in Labels :
        /\ l.raw # NoString
        /\ FirstStarting(Words(l.raw)) \in 2..Len(Words(l.raw))
        /\ \E i \in 1..(FirstStarting(Words(l.raw)) - 1) :
              EndsInPunctuation(Words(l.raw)[i])

\* the claim-text tags below the claims tag, in document order
ClaimTexts ==
    SelectSeq(Idx(doc), LAMBDA i : /\ has_class(doc, i, s_claim_text)
                                   /\ \E c \in 1..Len(doc) : /\ has_class(doc, c, s_claims)
                                                             /\ IsAncestor(doc, c, i))

\* the ancestor of t with class "claim" that is closest to t
NearestClaim(t) ==
    LET above == {a \in 1..Len(doc) : IsAncestor(doc, a, t) /\ has_class(doc, a, s_claim)}
    IN  IF above = {} THEN NoTag ELSE CHOOSE a \in above : \A b \in above : b <= a

\* the claim-text tags that are the first of their claim
FirstOfClaim ==
    SelectSeq(Idx(ClaimTexts),
              LAMBDA i : \A j \in 1..(i - 1) : NearestClaim(ClaimTexts[j]) # NearestClaim(ClaimTexts[i]))

\* C6: the claims list of parse_claims has one entry per distinct nearest "claim"
\* ancestor of the claim-text tags, however many claim-text tags share it, in the
\* order in which the ancestors are first met.
C6_OneEntryPerClaim ==
    pc = "returned" =>
        /\ Len(data[s_claims].list) =
              Cardinality({NearestClaim(ClaimTexts[i]) : i \in DOMAIN ClaimTexts})
        /\ Len(data[s_claims].list) = Len(FirstOfClaim)
        /\ \A k \in DOMAIN FirstOfClaim :
              data[s_claims].list[k] =
                 NodeV(parse_claim(doc, NearestClaim(ClaimTexts[FirstOfClaim[k]])))

\* claim-text tags that share a claim, in a list of several claims
C6_Witness ==
    /\ pc = "returned"
    /\ Len(data[s_claims].list) >= 2
    /\ \E i, j \in DOMAIN ClaimTexts :
          i < j /\ NearestClaim(ClaimTexts[i]) = NearestClaim(ClaimTexts[j])

\* the heading tags and the line tags of the description, in document order
Headings == SelectSeq(Idx(doc), LAMBDA i : doc[i].name = "heading")

Lines ==
    SelectSeq(Idx(doc), LAMBDA i : doc[i].name # "heading" /\ has_class(doc, i, s_description_line))

\* the lines between heading k - 1 (the start, for k = 1) and heading k (the end, for
\* the last part)
LinesOfPart(k) ==
    SelectSeq(Lines, LAMBDA l : /\ (k = 1 \/ l > Headings[k - 1])
                                /\ (k > Len(Headings) \/ l < Headings[k]))

LineNode(l) == NodeV(Put(Put(EmptyNode, s_num, get(doc, l, s_num)), s_text, Str(get_text(doc, l))))

\* C7: parse_description gives one part more than there are heading tags; the first
\* part has the heading "" and the lines before the first heading, part k + 1 has the
\* text of heading k and the lines up to the next heading, in document order, each
\* line with its num (or None) and its text.
C7_PartsByHeading ==
    pc = "returned" =>
        /\ Len(data[s_parts].list) = Len(Headings) + 1
        /\ \A k \in DOMAIN data[s_parts].list :
              LET lines == LinesOfPart(k)
              IN  /\ data[s_parts].list[k].node[s_heading] =
                        Str(IF k = 1 THEN <<>> ELSE get_text(doc, Headings[k - 1]))
                  /\ data[s_parts].list[k].node[s_lines] =
                        ListV([n \in 1..Len(lines) |-> LineNode(lines[n])])

\* two headings with a line before, between and after them
C7_Witness ==
    /\ pc = "returned"
    /\ Len(Headings) = 2
    /\ \A k \in 1..3 : LinesOfPart(k) # <<>>

\* the scoped sections below the article, in document order
ScopedSections ==
    SelectSeq(Idx(doc), LAMBDA i : /\ doc[i].name = "section"
                                   /\ has_attr(doc, i, s_itemscope)
                                   /\ IsAncestor(doc, article_of(doc), i))

\* what the specialized parser of section s gives
SectionValue(s) ==
    CASE get(doc, s, s_itemprop) = Str(s_abstract) -> NodeV(parse_abstract(doc, s).node)
      [] get(doc, s, s_itemprop) = Str(s_description) -> NodeV(parse_description(doc, s).node)
      [] get(doc, s, s_itemprop) = Str(s_claims) -> NodeV(parse_claims(doc, idOf, s).node)
      [] OTHER -> None

\* the last scoped section with the property name of section s
LastNamed(s) ==
    CHOOSE i \in DOMAIN ScopedSections :
        /\ get(doc, ScopedSections[i], s_itemprop) = get(doc, s, s_itemprop)
        /\ \A j \in DOMAIN ScopedSections :
              get(doc, ScopedSections[j], s_itemprop) = get(doc, s, s_itemprop) => j <= i

\* C2: when parse_html returns, every scoped section below the article with property
\* name p has its key p in the top-level node, and the value under p is what the
\* specialized parser gave for p (for the last section named p, when several are): a
\* node for abstract, description or claims, None for any other name, whatever the
\* generic walk stored under p.
C2_SectionsMapped ==
    pc = "returned" =>
        \A i \in DOMAIN ScopedSections :
            /\ get(doc, ScopedSections[i], s_itemprop).str \in DOMAIN data
            /\ data[get(doc, ScopedSections[i], s_itemprop).str] =
                  SectionValue(ScopedSections[LastNamed(ScopedSections[i])])

\* parse_html returned for a document where the generic walk stored a label group
\* under "abstract" in the top-level node and a scoped abstract section follows
C2_Witness ==
    /\ pc = "returned"
    /\ \E i \in DOMAIN ScopedSections : get(doc, ScopedSections[i], s_itemprop) = Str(s_abstract)
    /\ \E t \in DOMAIN installed :
          /\ installed[t] # <<>>
          /\ doc[t].parent = article_of(doc)
          /\ installed[t][1].key = s_abstract
          /\ data[s_abstract] # NodeV(installed[t][1].node)

Ok(node) == [ok |-> TRUE, node |-> node]

\* the following siblings of label t up to the next label among them
GroupTags(d, t) ==
    SelectSeq(next_siblings(d, t),
              LAMBDA x : \A u \in (t + 1)..x :
                            d[u].parent = d[t].parent => d[u].name \notin START_TAGS)

\* the properties found among tags, each tag taken once, added to acc: a label gives
\* the group of its siblings, a tag without itemprop what is found among its
\* children, a section nothing, a property its value
RECURSIVE FoundIn(_, _, _)
FoundIn(d, tags, acc) ==
    IF tags = <<>> \/ ~acc.ok THEN acc
    ELSE LET t == Head(tags)
             group == FoundIn(d, GroupTags(d, t), Ok(EmptyNode))
             grouped == {GroupTags(d, t)[k] : k \in DOMAIN GroupTags(d, t)}
             inner == IF has_attr(d, t, s_itemscope)
                      THEN FoundIn(d, children(d, t), Ok(EmptyNode))
                      ELSE Ok(EmptyNode)
         IN  IF d[t].name \in START_TAGS
             THEN IF group.ok
                  THEN FoundIn(d, SelectSeq(Tail(tags), LAMBDA x : x \notin grouped),
                               Ok(Put(acc.node, parse_label(d, t), NodeV(group.node))))
                  ELSE group
             ELSE IF ~Truthy(get(d, t, s_itemprop))
             THEN FoundIn(d, Tail(tags), FoundIn(d, children(d, t), acc))
             ELSE IF d[t].name = "section" THEN FoundIn(d, Tail(tags), acc)
             ELSE IF inner.ok
             THEN FoundIn(d, Tail(tags),
                          store_property(d, t, acc.node, property_value(d, t, inner.node)))
             ELSE inner

\* C3: the node installed under a label holds exactly the properties found among the
\* label tag's following siblings up to, and not including, the next label among them.
C3_LabelGroupExact ==
    \A t \in DOMAIN installed :
        \A k \in DOMAIN installed[t] :
            installed[t][k].node = FoundIn(doc, GroupTags(doc, t), Ok(EmptyNode)).node

Revisit ==
    IF pc = "walk" /\ stack # <<>>
    THEN (IF loop_done(doc, Top) THEN FALSE ELSE visits[Head(Top.rest)] # <<>>)
    ELSE FALSE

\* C8: within one parse_html call parse_properties processes a tag at most once, so
\* the tag takes at most one transition; handed a tag it has processed, it returns at
\* once: the loop goes on to its next tag and no node, nor anything else, changes.
C8_ProcessedOnce ==
    /\ [](\A t \in DOMAIN visits : Len(visits[t]) <= 1)
    /\ [][IF Revisit
          THEN /\ stack' = [stack EXCEPT ![Len(stack)] = Advance(Top)]
               /\ UNCHANGED <<pc, hack, data, visits, installed, returned>>
          ELSE TRUE]_vars

\* in the first call, a tag processed in a label's run comes up again in the loop over
\* the children of its parent
C8_Witness ==
    /\ calls = 1
    /\ Revisit
    /\ Top.ret # "label"

====
